---- MODULE Spec2Model ----
(***************************************************************************)
(* Model of doris::ColumnPredicate (be/src/olap/column_predicate.h): the   *)
(* short-circuit evaluate entry point, the selection-vector compaction of  *)
(* EVALUATE_BY_SELECTOR, the selectivity sampler and the profile counters; *)
(* and of MultiplyImpl::vector_vector (be/src/vec/functions/multiply.cpp), *)
(* the DecimalV2 multiplication kernel; of the two string renderings of    *)
(* PredicateType; and of two predicate instances run by two threads.       *)
(***************************************************************************)
EXTENDS Integers, Sequences, FiniteSets, TLC

\* ---------------------------------------------------------------- bounds
\* Largest batch (number of rows of the column handed to evaluate) under Spec.
MaxRows == 2
\* Largest batch under SpecKernel, the specification of the compaction claims.
KernelRows == 3
\* config::runtime_filter_sampling_frequency, the length of a sampling window.
SamplingFrequency == 2
\* Largest value a profile counter may reach (evaluate is not called beyond it).
MaxCount == 3
\* Number of renderings of predicate kinds that are kept for comparison.
MaxRenders == 2
\* Largest batch, and number of evaluate calls of the two threads together,
\* under SpecThreads.
ThreadRows == 1
MaxCalls == 3

\* ------------------------------------------------------- values and inputs
\* Column cell values; "null" is a row whose null-map entry is set.
PredValue == "a"
CellValues == {"a", "b"}
NullCell == "null"

\* get_ignore_threshold() of the variants, as <<numerator, denominator>>.
Thresholds == {<<0, 1>>, <<1, 2>>}

\* Runtime filter ids passed to attach_profile_counter.
FilterIds == {-1, 3}

\* Counter objects: the two made by the member initialisers, and the two of the
\* runtime profile that the caller passes to attach_profile_counter (or nullptr).
DefaultFiltered == "own_filtered"
DefaultInput == "own_input"
ProfileSecond == "profile_second"
ProfileThird == "profile_third"
NullPtr == "nullptr"
CounterIds == {DefaultFiltered, DefaultInput, ProfileSecond, ProfileThird}

VARIABLES
    _runtime_filter_id,                 \* int _runtime_filter_id
    _judge_counter,                     \* mutable int _judge_counter
    _judge_input_rows,                  \* mutable uint64_t _judge_input_rows
    _judge_filter_rows,                 \* mutable uint64_t _judge_filter_rows
    _always_true,                       \* mutable bool _always_true
    _predicate_filtered_rows_counter,   \* shared_ptr<Counter>: a counter id
    _predicate_input_rows_counter,      \* shared_ptr<Counter>: a counter id
    counters,                           \* value of every counter object
    ignore_threshold,                   \* what the variant's get_ignore_threshold() returns
    overrides_inner,                    \* the variant overrides _evaluate_inner
    column,                             \* caller's batch: [nullable, cells]
    sel,                                \* caller's selection buffer (0-based row ids)
    size,                               \* caller's current selection size
    aborted,                            \* a DCHECK has ended the process
    last,                               \* record of the last operation (observer)
    hist,                               \* history of the instance (observer)
    mul,                                \* one element of a vector_vector call
    rendered,                           \* renderings of predicate kinds made so far
    par                                 \* two instances, each run by its own thread

vars == <<_runtime_filter_id, _judge_counter, _judge_input_rows,
          _judge_filter_rows, _always_true, _predicate_filtered_rows_counter,
          _predicate_input_rows_counter, counters, ignore_threshold,
          overrides_inner, column, sel, size, aborted, last, hist, mul, rendered, par>>

\* ------------------------------------------------------------------ helpers
Min(a, b) == IF a < b THEN a ELSE b

Range(s) == {s[i] : i \in 1..Len(s)}

StrictlyIncreasing(s) == \A i \in 1..(Len(s) - 1) : s[i] < s[i + 1]

\* Strictly increasing selections of k row ids of an n-row column.
SparseSels(n, k) == {s \in [1..k -> 0..(n - 1)] : StrictlyIncreasing(s)}

\* What a dense caller may leave in the first n slots of the buffer: the
\* identity, or a zeroed buffer it never filled in for this batch.
DenseBuffers(n) == {[i \in 1..n |-> i - 1], [i \in 1..n |-> 0]}

\* n-row columns of the predicate's column type (nullable or not).
Columns(nullable, n) ==
    {[nullable |-> nullable, cells |-> c] :
        c \in [1..n -> IF nullable THEN CellValues \cup {NullCell} ELSE CellValues]}

\* ------------------------------------------------------------------ sampler
\* The sampler fields as one value.
Sampler == [judge_counter |-> _judge_counter, judge_input_rows |-> _judge_input_rows,
            judge_filter_rows |-> _judge_filter_rows, always_true |-> _always_true]

\* Seeded fault: the flag is never consulted.
always_true_Never(s) == FALSE

always_true(s) == s.always_true

\* Seeded fault: every predicate is ignorable.
_can_ignore_Always(rf) == TRUE

_can_ignore(rf) == rf # -1

\* VRuntimeFilterWrapper::judge_selectivity: the new value of always_true.
\* filter_rows / input_rows < threshold in doubles; 0/0 is NaN and compares false.
judge_selectivity(thr, filter_rows, input_rows) ==
    filter_rows * thr[2] < thr[1] * input_rows

\* The sampler fields as their member initialisers leave them.
MemberInit == [judge_counter |-> 0, judge_input_rows |-> 0,
               judge_filter_rows |-> 0, always_true |-> FALSE]

\* Seeded fault: the reset forgets the cumulative totals.
reset_judge_selectivity_KeepsTotals(s) ==
    [s EXCEPT !.always_true = FALSE, !.judge_counter = SamplingFrequency]

reset_judge_selectivity(s) ==
    [s EXCEPT !.always_true = FALSE, !.judge_counter = SamplingFrequency,
              !.judge_input_rows = 0, !.judge_filter_rows = 0]

\* Seeded fault: the totals are judged only by the last call of the window.
do_judge_selectivity_JudgesAtWindowEnd(s, thr, filter_rows, input_rows) ==
    LET s1 == IF s.judge_counter = 0
              THEN reset_judge_selectivity([s EXCEPT !.judge_counter = @ - 1])
              ELSE [s EXCEPT !.judge_counter = @ - 1]
    IN  IF ~s1.always_true
        THEN [s1 EXCEPT !.judge_filter_rows = @ + filter_rows,
                        !.judge_input_rows = @ + input_rows,
                        !.always_true =
                            /\ s1.judge_counter = 0
                            /\ judge_selectivity(thr, s1.judge_filter_rows + filter_rows,
                                                 s1.judge_input_rows + input_rows)]
        ELSE s1

\* Seeded fault: each total receives the other's rows.
do_judge_selectivity_SwapsTotals(s, thr, filter_rows, input_rows) ==
    LET s1 == IF s.judge_counter = 0
              THEN reset_judge_selectivity([s EXCEPT !.judge_counter = @ - 1])
              ELSE [s EXCEPT !.judge_counter = @ - 1]
    IN  IF ~s1.always_true
        THEN [s1 EXCEPT !.judge_filter_rows = @ + input_rows,
                        !.judge_input_rows = @ + filter_rows,
                        !.always_true = judge_selectivity(thr, s1.judge_filter_rows + input_rows,
                                                          s1.judge_input_rows + filter_rows)]
        ELSE s1

\* Seeded fault: the countdown is decremented before it is tested.
do_judge_selectivity_PreDecrement(s, thr, filter_rows, input_rows) ==
    LET s1 == IF s.judge_counter - 1 = 0
              THEN reset_judge_selectivity([s EXCEPT !.judge_counter = @ - 1])
              ELSE [s EXCEPT !.judge_counter = @ - 1]
    IN  IF ~s1.always_true
        THEN [s1 EXCEPT !.judge_filter_rows = @ + filter_rows,
                        !.judge_input_rows = @ + input_rows,
                        !.always_true = judge_selectivity(thr, s1.judge_filter_rows + filter_rows,
                                                          s1.judge_input_rows + input_rows)]
        ELSE s1

do_judge_selectivity(s, thr, filter_rows, input_rows) ==
    LET s1 == IF s.judge_counter = 0
              THEN reset_judge_selectivity([s EXCEPT !.judge_counter = @ - 1])
              ELSE [s EXCEPT !.judge_counter = @ - 1]
    IN  IF ~s1.always_true
        THEN [s1 EXCEPT !.judge_filter_rows = @ + filter_rows,
                        !.judge_input_rows = @ + input_rows,
                        !.always_true = judge_selectivity(thr, s1.judge_filter_rows + filter_rows,
                                                          s1.judge_input_rows + input_rows)]
        ELSE s1

\* ------------------------------------------------------------------- kernel
\* The comparison of an equality predicate (opposite = false) on one non-null cell.
Condition(v) == v = PredValue

EVALUATE_IMPL_WITH_NULL_MAP(col, idx) ==
    col.cells[idx + 1] # NullCell /\ Condition(col.cells[idx + 1])

EVALUATE_IMPL_WITHOUT_NULL_MAP(col, idx) == Condition(col.cells[idx + 1])

\* Seeded fault: the row id is always the loop index, the selection is never read.
SelectorStep_DenseOnly(col, sz, st, i) ==
    LET keep == IF col.nullable
                THEN EVALUATE_IMPL_WITH_NULL_MAP(col, i)
                ELSE EVALUATE_IMPL_WITHOUT_NULL_MAP(col, i)
    IN  IF keep
        THEN [sel |-> [st.sel EXCEPT ![st.new_size + 1] = i],
              new_size |-> st.new_size + 1,
              early |-> st.early \/ st.new_size > i]
        ELSE st

\* Seeded fault: a surviving row id is written to the slot it was read from, not
\* to the front of the buffer.
SelectorStep_NoCompaction(col, sz, st, i) ==
    LET is_dense_column == Len(col.cells) = sz
        idx == IF is_dense_column THEN i ELSE st.sel[i + 1]
        keep == IF col.nullable
                THEN EVALUATE_IMPL_WITH_NULL_MAP(col, idx)
                ELSE EVALUATE_IMPL_WITHOUT_NULL_MAP(col, idx)
    IN  IF keep
        THEN [sel |-> [st.sel EXCEPT ![i + 1] = idx],
              new_size |-> st.new_size + 1,
              early |-> st.early]
        ELSE st

\* Seeded fault: the row id is always read from the buffer, also for a dense input.
SelectorStep_SparseOnly(col, sz, st, i) ==
    LET idx == st.sel[i + 1]
        keep == IF col.nullable
                THEN EVALUATE_IMPL_WITH_NULL_MAP(col, idx)
                ELSE EVALUATE_IMPL_WITHOUT_NULL_MAP(col, idx)
    IN  IF keep
        THEN [sel |-> [st.sel EXCEPT ![st.new_size + 1] = idx],
              new_size |-> st.new_size + 1,
              early |-> st.early \/ st.new_size > i]
        ELSE st

\* One iteration of the loop of EVALUATE_BY_SELECTOR; st = [sel, new_size, early],
\* early: some write went to a slot the loop had not read yet.
SelectorStep(col, sz, st, i) ==
    LET is_dense_column == Len(col.cells) = sz
        idx == IF is_dense_column THEN i ELSE st.sel[i + 1]
        keep == IF col.nullable
                THEN EVALUATE_IMPL_WITH_NULL_MAP(col, idx)
                ELSE EVALUATE_IMPL_WITHOUT_NULL_MAP(col, idx)
    IN  IF keep
        THEN [sel |-> [st.sel EXCEPT ![st.new_size + 1] = idx],
              new_size |-> st.new_size + 1,
              early |-> st.early \/ st.new_size > i]
        ELSE st

RECURSIVE SelectorLoop(_, _, _, _)
SelectorLoop(col, sz, st, i) ==
    IF i >= sz THEN st
    ELSE SelectorLoop(col, sz, SelectorStep(col, sz, st, i), i + 1)

EVALUATE_BY_SELECTOR(col, s, sz) ==
    SelectorLoop(col, sz, [sel |-> s, new_size |-> 0, early |-> FALSE], 0)

\* Seeded fault: a variant without a kernel reports that no row survived.
_evaluate_inner_ReturnsZero(ovr, col, s, sz) ==
    IF ovr
    THEN [threw |-> FALSE] @@ EVALUATE_BY_SELECTOR(col, s, sz)
    ELSE [threw |-> FALSE, sel |-> s, new_size |-> 0, early |-> FALSE]

\* _evaluate_inner: the variant's kernel, a use of EVALUATE_BY_SELECTOR with
\* new_size = 0; the base class throws.
_evaluate_inner(ovr, col, s, sz) ==
    IF ovr
    THEN [threw |-> FALSE] @@ EVALUATE_BY_SELECTOR(col, s, sz)
    ELSE [threw |-> TRUE, sel |-> s, new_size |-> 0, early |-> FALSE]

\* --------------------------------------------------------------- bookkeeping
\* Seeded fault: the two updates go to each other's counter.
update_filter_info_Swapped(cnt, input_ref, filtered_ref, filter_rows, input_rows) ==
    LET c1 == [cnt EXCEPT ![filtered_ref] = @ + input_rows]
    IN  [c1 EXCEPT ![input_ref] = @ + filter_rows]

\* Seeded fault: only the input rows are counted.
update_filter_info_InputOnly(cnt, input_ref, filtered_ref, filter_rows, input_rows) ==
    [cnt EXCEPT ![input_ref] = @ + input_rows]

update_filter_info(cnt, input_ref, filtered_ref, filter_rows, input_rows) ==
    LET c1 == [cnt EXCEPT ![input_ref] = @ + input_rows]
    IN  [c1 EXCEPT ![filtered_ref] = @ + filter_rows]

\* ----------------------------------------------------------------- evaluate
\* uint16_t evaluate(column, sel, size): what the call leaves behind.
evaluate(rf, thr, ovr, s, cnt, input_ref, filtered_ref, col, buf, sz) ==
    IF always_true(s)
    THEN [threw |-> FALSE, kernel_ran |-> FALSE, early |-> FALSE, ret |-> sz,
          sel |-> buf, sampler |-> s, counters |-> cnt]
    ELSE LET k == _evaluate_inner(ovr, col, buf, sz)
             new_size == k.new_size
             s1 == IF _can_ignore(rf)
                   THEN do_judge_selectivity(s, thr, sz - new_size, sz)
                   ELSE s
         IN  IF k.threw
             THEN [threw |-> TRUE, kernel_ran |-> FALSE, early |-> FALSE, ret |-> sz,
                   sel |-> buf, sampler |-> s, counters |-> cnt]
             ELSE [threw |-> FALSE, kernel_ran |-> TRUE, early |-> k.early,
                   ret |-> new_size, sel |-> k.sel, sampler |-> s1,
                   counters |-> update_filter_info(cnt, input_ref, filtered_ref,
                                                   sz - new_size, sz)]

\* ----------------------------------------------------------------- multiply
\* The kernel at reduced scale: int128_t is a two's-complement integer of
\* Int128Bits bits and DecimalV2Value::ONE_BILLION, the number of raw units in
\* one, is 3.  The largest decimal keeps its form, 10^27 - 1 = ONE_BILLION^3 - 1,
\* so that, as at full scale, ONE_BILLION * get_max_decimal is representable
\* and get_max_decimal * get_max_decimal is not.
Int128Bits == 8
ONE_BILLION == 3

Int128Max == 2 ^ (Int128Bits - 1) - 1
Int128Min == -(2 ^ (Int128Bits - 1))

get_max_decimal == ONE_BILLION * ONE_BILLION * ONE_BILLION - 1
get_min_decimal == -get_max_decimal

\* Raw values of the decimals a column holds.
Decimals == get_min_decimal..get_max_decimal

\* The low Int128Bits bits of x, read as a signed integer.
Wrap(x) == ((x - Int128Min) % (2 ^ Int128Bits)) + Int128Min

\* operator/ of int128_t: the quotient truncated toward zero (d > 0).
TruncDiv(x, d) == IF x >= 0 THEN x \div d ELSE -((-x) \div d)

\* common::mul_overflow(x, y, result): whether x * y is not representable, and
\* what result holds afterwards (the low bits of the product).
mul_overflow(x, y) ==
    [overflow |-> x * y > Int128Max \/ x * y < Int128Min, result |-> Wrap(x * y)]

\* Seeded fault: the sign of a negative product is taken as positive.
sgn_NeverNegative(x, y) == IF x = 0 \/ y = 0 THEN 0 ELSE 1

\* sgn[i], the first loop of vector_vector.
sgn(x, y) ==
    IF (x > 0 /\ y > 0) \/ (x < 0 /\ y < 0) THEN 1
    ELSE IF x = 0 \/ y = 0 THEN 0
    ELSE -1

\* Seeded fault: the checking path omits the comparison with max and min.
vector_vector_NoRangeCheck(check_overflow, x, y, undefined) ==
    IF check_overflow
    THEN LET m == mul_overflow(x, y)
         IN  IF m.overflow
             THEN [threw |-> TRUE, error |-> <<x, y, m.result>>, stored |-> FALSE, c |-> 0]
             ELSE [threw |-> FALSE, error |-> <<>>, stored |-> TRUE,
                   c |-> TruncDiv(m.result - sgn(x, y), ONE_BILLION) + sgn(x, y)]
    ELSE [threw |-> FALSE, error |-> <<>>, stored |-> TRUE,
          c |-> IF mul_overflow(x, y).overflow
                THEN undefined
                ELSE TruncDiv(x * y - sgn(x, y), ONE_BILLION) + sgn(x, y)]

\* The body of the second loop of vector_vector<check_overflow> for one i, with
\* a[i] = x and b[i] = y: whether it threw, what the exception carries, whether
\* c[i] was written and with what.  In the non-checking path a product that is
\* not representable is a signed overflow, whose outcome the language leaves
\* open: undefined is the value the build happens to store.
vector_vector(check_overflow, x, y, undefined) ==
    IF check_overflow
    THEN LET m == mul_overflow(x, y)
             v == TruncDiv(m.result - sgn(x, y), ONE_BILLION) + sgn(x, y)
         IN  IF m.overflow
             THEN [threw |-> TRUE, error |-> <<x, y, m.result>>, stored |-> FALSE, c |-> 0]
             ELSE IF v > get_max_decimal \/ v < get_min_decimal
             THEN [threw |-> TRUE, error |-> <<x, y, m.result>>, stored |-> TRUE, c |-> v]
             ELSE [threw |-> FALSE, error |-> <<>>, stored |-> TRUE, c |-> v]
    ELSE [threw |-> FALSE, error |-> <<>>, stored |-> TRUE,
          c |-> IF mul_overflow(x, y).overflow
                THEN undefined
                ELSE TruncDiv(x * y - sgn(x, y), ONE_BILLION) + sgn(x, y)]

\* No multiplication is under way.
NoMultiply == [pc |-> "idle", check_overflow |-> FALSE, a |-> 0, b |-> 0,
               threw |-> FALSE, error |-> <<>>, stored |-> FALSE, c |-> 0]

\* ---------------------------------------------------------------- rendering
\* enum class PredicateType, by value: UNKNOWN = 0, EQ, NE, LT, LE, GT, GE,
\* IN_LIST, NOT_IN_LIST, IS_NULL, IS_NOT_NULL, BF, BITMAP_FILTER, MATCH = 13.
UNKNOWN == 0
EQ == 1
NE == 2
LT == 3
LE == 4
GT == 5
GE == 6
IN_LIST == 7
NOT_IN_LIST == 8
IS_NULL == 9
IS_NOT_NULL == 10
BF == 11
BITMAP_FILTER == 12
MATCH == 13
PredicateType == {UNKNOWN, EQ, NE, LT, LE, GT, GE, IN_LIST, NOT_IN_LIST, IS_NULL,
                  IS_NOT_NULL, BF, BITMAP_FILTER, MATCH}

type_to_string(type) ==
    CASE type = UNKNOWN -> "UNKNOWN"
      [] type = EQ -> "EQ"
      [] type = NE -> "NE"
      [] type = LT -> "LT"
      [] type = LE -> "LE"
      [] type = GT -> "GT"
      [] type = GE -> "GE"
      [] type = IN_LIST -> "IN_LIST"
      [] type = NOT_IN_LIST -> "NOT_IN_LIST"
      [] type = IS_NULL -> "IS_NULL"
      [] type = IS_NOT_NULL -> "IS_NOT_NULL"
      [] type = BF -> "BF"
      [] OTHER -> ""

pred_type_string(type) ==
    CASE type = EQ -> "eq"
      [] type = NE -> "ne"
      [] type = LT -> "lt"
      [] type = LE -> "le"
      [] type = GT -> "gt"
      [] type = GE -> "ge"
      [] type = IN_LIST -> "in"
      [] type = NOT_IN_LIST -> "not_in"
      [] type = IS_NULL -> "is_null"
      [] type = IS_NOT_NULL -> "is_not_null"
      [] type = BF -> "bf"
      [] type = MATCH -> "match"
      [] OTHER -> "unknown"

\* The kinds each function has a case label for.
TypeToStringCases == PredicateType \ {BITMAP_FILTER, MATCH}
PredTypeStringCases == PredicateType \ {UNKNOWN, BITMAP_FILTER}

\* ------------------------------------------------------------------ threads
\* Two pipeline lanes, each with a predicate instance of its own.
Threads == {1, 2}

\* COUNTER_UPDATE(counter, delta) on a RuntimeProfile::Counter: one atomic add.
\* Seeded fault: the counter is set to the rows of the call.
COUNTER_UPDATE_Sets(cnt, ref, delta) == [cnt EXCEPT ![ref] = delta]

COUNTER_UPDATE(cnt, ref, delta) == [cnt EXCEPT ![ref] = @ + delta]

\* An instance after construction and attach_profile_counter(rf, ProfileSecond,
\* ProfileThird), with its thread between calls.  filter_rows, input_rows: the
\* locals of the call under way; sel, ret: the caller's buffer and the size
\* returned to it; alone: the same instance and calls, run with counters that
\* no other instance is attached to.
Instance(rf, thr) ==
    [pc |-> "idle", rf |-> rf, thr |-> thr, calls |-> 0,
     sampler |-> reset_judge_selectivity(MemberInit),
     sel |-> <<>>, ret |-> 0, filter_rows |-> 0, input_rows |-> 0,
     alone |-> [sampler |-> reset_judge_selectivity(MemberInit),
                counters |-> [c \in CounterIds |-> 0], ret |-> 0, sel |-> <<>>]]

\* The instances threads run, as <<runtime filter id, ignore threshold>>: a
\* runtime-filter predicate that may be judged always-true, and an ordinary one.
ThreadConfigs == {<<3, <<1, 2>>>>, <<-1, <<0, 1>>>>}

\* No instance is run by a thread.
NoThreads == [inst |-> [t \in Threads |-> Instance(-1, <<0, 1>>)],
              counters |-> [c \in CounterIds |-> 0], overlapped |-> FALSE]

\* ------------------------------------------------------------------- state
\* again: the call was made on what the previous call on the batch returned.
NoCall == [op |-> "none", threw |-> FALSE, kernel_ran |-> FALSE, early |-> FALSE,
           again |-> FALSE, ret |-> 0, size_in |-> 0, sel_in |-> <<>>,
           sampler_in |-> MemberInit,
           counters_in |-> [c \in CounterIds |-> 0]]

PredicateInit ==
    /\ _runtime_filter_id = -1
    /\ _judge_counter = reset_judge_selectivity(MemberInit).judge_counter
    /\ _judge_input_rows = reset_judge_selectivity(MemberInit).judge_input_rows
    /\ _judge_filter_rows = reset_judge_selectivity(MemberInit).judge_filter_rows
    /\ _always_true = reset_judge_selectivity(MemberInit).always_true
    /\ _predicate_filtered_rows_counter = DefaultFiltered
    /\ _predicate_input_rows_counter = DefaultInput
    /\ counters = [c \in CounterIds |-> 0]
    /\ ignore_threshold \in Thresholds
    /\ overrides_inner \in BOOLEAN
    /\ \E nullable \in BOOLEAN : column = [nullable |-> nullable, cells |-> <<>>]
    /\ sel = <<>>
    /\ size = 0
    /\ aborted = FALSE
    /\ last = NoCall
    /\ hist = [attached |-> FALSE, attach_args |-> <<-1, NullPtr, NullPtr>>,
               only_minus_one |-> TRUE,
               window_fed |-> FALSE, window_below |-> TRUE, skipped |-> 0,
               window_calls |-> 0, resets |-> FALSE,
               window_base |-> [input |-> 0, filtered |-> 0]]

Init ==
    /\ PredicateInit
    /\ mul = NoMultiply
    /\ rendered = <<>>
    /\ par = NoThreads

\* The caller, done with the previous batch, reads the next one and sets up
\* its selection: dense (size = number of rows, buffer not necessarily filled)
\* or sparse.
LoadBatch(rows) ==
    /\ ~aborted
    /\ last.op \in {"none", "attach", "release"}
    /\ \E n \in 0..rows : \E col \in Columns(column.nullable, n) :
         \E k \in 0..n : \E buf \in (IF k = n THEN DenseBuffers(n) ELSE SparseSels(n, k)) :
            /\ column' = col
            /\ sel' = buf
            /\ size' = k
    /\ last' = [NoCall EXCEPT !.op = "load"]
    /\ UNCHANGED <<_runtime_filter_id, _judge_counter, _judge_input_rows,
                   _judge_filter_rows, _always_true, _predicate_filtered_rows_counter,
                   _predicate_input_rows_counter, counters, ignore_threshold,
                   overrides_inner, aborted, hist, mul, rendered, par>>

\* attach_profile_counter(filter_id, predicate_filtered_rows_counter,
\*                        predicate_input_rows_counter), the one-time wiring call
\* of pipeline setup (made before the first batch is evaluated).
\* dcheck: the build keeps DCHECK (debug) or compiles it out (release).
attach_profile_counter(filter_id, predicate_filtered_rows_counter, predicate_input_rows_counter, dcheck) ==
    /\ _runtime_filter_id' = filter_id
    /\ IF dcheck /\ (predicate_filtered_rows_counter = NullPtr
                     \/ predicate_input_rows_counter = NullPtr)
       THEN /\ aborted' = TRUE
            /\ UNCHANGED <<_predicate_filtered_rows_counter, _predicate_input_rows_counter>>
       ELSE /\ aborted' = FALSE
            /\ _predicate_filtered_rows_counter' =
                   IF predicate_filtered_rows_counter # NullPtr
                   THEN predicate_filtered_rows_counter
                   ELSE _predicate_filtered_rows_counter
            /\ _predicate_input_rows_counter' =
                   IF predicate_input_rows_counter # NullPtr
                   THEN predicate_input_rows_counter
                   ELSE _predicate_input_rows_counter

Attach(seconds, thirds) ==
    /\ ~aborted
    /\ ~hist.attached
    /\ last.op \in {"none", "attach"}
    /\ \E filter_id \in FilterIds : \E a2 \in seconds : \E a3 \in thirds : \E dcheck \in BOOLEAN :
            /\ attach_profile_counter(filter_id, a2, a3, dcheck)
            /\ last' = [NoCall EXCEPT !.op = "attach",
                                      !.sampler_in = Sampler, !.counters_in = counters]
            /\ hist' = [hist EXCEPT !.attached = TRUE,
                                    !.attach_args = <<filter_id, a2, a3>>,
                                    !.only_minus_one = @ /\ filter_id = -1]
    /\ UNCHANGED <<_judge_counter, _judge_input_rows, _judge_filter_rows,
                   _always_true, counters, ignore_threshold, overrides_inner,
                   column, sel, size, mul, rendered, par>>

\* The caller runs the predicate on its batch and keeps the returned size; it
\* may run it again on what the call left.
Evaluate ==
    /\ ~aborted
    /\ last.op \in {"load", "evaluate"}
    /\ LET r == evaluate(_runtime_filter_id, ignore_threshold, overrides_inner,
                         Sampler, counters, _predicate_input_rows_counter,
                         _predicate_filtered_rows_counter, column, sel, size)
           fed == r.kernel_ran /\ _can_ignore(_runtime_filter_id)
           fresh == fed /\ _judge_counter = 0
           below == judge_selectivity(ignore_threshold, size - r.ret, size)
       IN  /\ \A c \in CounterIds : r.counters[c] <= MaxCount
           /\ _judge_counter' = r.sampler.judge_counter
           /\ _judge_input_rows' = r.sampler.judge_input_rows
           /\ _judge_filter_rows' = r.sampler.judge_filter_rows
           /\ _always_true' = r.sampler.always_true
           /\ counters' = r.counters
           /\ sel' = r.sel
           /\ size' = IF r.threw THEN size ELSE r.ret
           /\ last' = [NoCall EXCEPT !.op = "evaluate", !.threw = r.threw,
                                     !.kernel_ran = r.kernel_ran, !.early = r.early,
                                     !.again = (last.op = "evaluate" /\ ~last.threw),
                                     !.ret = r.ret, !.size_in = size, !.sel_in = sel,
                                     !.sampler_in = Sampler, !.counters_in = counters]
           /\ hist' = [hist EXCEPT
                         !.window_fed = @ \/ fed,
                         !.window_below = IF ~fed THEN @
                                          ELSE IF fresh THEN below ELSE @ /\ below,
                         !.skipped = IF _always_true
                                     THEN Min(@ + 1, SamplingFrequency + 2) ELSE 0,
                         !.window_calls = IF ~fed THEN @ ELSE IF fresh THEN 1 ELSE @ + 1,
                         !.resets = @ \/ fresh,
                         !.window_base =
                             IF fresh
                             THEN [input |-> counters[_predicate_input_rows_counter],
                                   filtered |-> counters[_predicate_filtered_rows_counter]]
                             ELSE @]
    /\ UNCHANGED <<_runtime_filter_id, _predicate_filtered_rows_counter,
                   _predicate_input_rows_counter, ignore_threshold, overrides_inner,
                   column, aborted, mul, rendered, par>>

\* The caller hands the surviving rows on and drops the batch.
ReleaseBatch ==
    /\ ~aborted
    /\ last.op = "evaluate"
    /\ column' = [column EXCEPT !.cells = <<>>]
    /\ sel' = <<>>
    /\ size' = 0
    /\ last' = [NoCall EXCEPT !.op = "release"]
    /\ UNCHANGED <<_runtime_filter_id, _judge_counter, _judge_input_rows,
                   _judge_filter_rows, _always_true, _predicate_filtered_rows_counter,
                   _predicate_input_rows_counter, counters, ignore_threshold,
                   overrides_inner, aborted, hist, mul, rendered, par>>

\* Any caller: a counter argument of attach_profile_counter may be null.
Next ==
    \/ LoadBatch(MaxRows)
    \/ Attach({ProfileSecond, NullPtr}, {ProfileThird, NullPtr})
    \/ Evaluate
    \/ ReleaseBatch

Spec == Init /\ [][Next]_vars

\* A caller that keeps the attachment contract (both counters non-null) and
\* reads larger batches.
NextKernel ==
    \/ LoadBatch(KernelRows)
    \/ Attach({ProfileSecond}, {ProfileThird})
    \/ Evaluate
    \/ ReleaseBatch

SpecKernel == Init /\ [][NextKernel]_vars

\* A call of vector_vector<check_overflow> on one pair of decimals.
InitMultiply ==
    /\ PredicateInit
    /\ ignore_threshold = <<0, 1>>
    /\ overrides_inner
    /\ ~column.nullable
    /\ rendered = <<>>
    /\ par = NoThreads
    /\ \E check_overflow \in BOOLEAN : \E x \in Decimals : \E y \in Decimals :
         mul = [NoMultiply EXCEPT !.pc = "called", !.check_overflow = check_overflow,
                                  !.a = x, !.b = y]

VectorVector ==
    /\ mul.pc = "called"
    /\ \E undefined \in Int128Min..Int128Max :
         LET r == vector_vector(mul.check_overflow, mul.a, mul.b, undefined)
         IN  mul' = [mul EXCEPT !.pc = "done", !.threw = r.threw, !.error = r.error,
                                !.stored = r.stored, !.c = r.c]
    /\ UNCHANGED <<_runtime_filter_id, _judge_counter, _judge_input_rows,
                   _judge_filter_rows, _always_true, _predicate_filtered_rows_counter,
                   _predicate_input_rows_counter, counters, ignore_threshold,
                   overrides_inner, column, sel, size, aborted, last, hist, rendered, par>>

NextMultiply == VectorVector

SpecMultiply == InitMultiply /\ [][NextMultiply]_vars

\* Diagnostics code renders predicate kinds, with either function.
InitRender ==
    /\ PredicateInit
    /\ ignore_threshold = <<0, 1>>
    /\ overrides_inner
    /\ ~column.nullable
    /\ mul = NoMultiply
    /\ rendered = <<>>
    /\ par = NoThreads

RenderTypeToString ==
    /\ Len(rendered) < MaxRenders
    /\ \E type \in PredicateType :
         rendered' = Append(rendered, [fn |-> "type_to_string", type |-> type,
                                       str |-> type_to_string(type)])
    /\ UNCHANGED <<_runtime_filter_id, _judge_counter, _judge_input_rows,
                   _judge_filter_rows, _always_true, _predicate_filtered_rows_counter,
                   _predicate_input_rows_counter, counters, ignore_threshold,
                   overrides_inner, column, sel, size, aborted, last, hist, mul, par>>

RenderPredTypeString ==
    /\ Len(rendered) < MaxRenders
    /\ \E type \in PredicateType :
         rendered' = Append(rendered, [fn |-> "pred_type_string", type |-> type,
                                       str |-> pred_type_string(type)])
    /\ UNCHANGED <<_runtime_filter_id, _judge_counter, _judge_input_rows,
                   _judge_filter_rows, _always_true, _predicate_filtered_rows_counter,
                   _predicate_input_rows_counter, counters, ignore_threshold,
                   overrides_inner, column, sel, size, aborted, last, hist, mul, par>>

NextRender ==
    \/ RenderTypeToString
    \/ RenderPredTypeString

SpecRender == InitRender /\ [][NextRender]_vars

\* The fields of the single instance of the other specifications.
PredicateVars == <<_runtime_filter_id, _judge_counter, _judge_input_rows,
                   _judge_filter_rows, _always_true, _predicate_filtered_rows_counter,
                   _predicate_input_rows_counter, counters, ignore_threshold,
                   overrides_inner, column, sel, size, aborted, last, hist>>

\* Two instances attached to the same pair of profile counters.
InitThreads ==
    /\ PredicateInit
    /\ ignore_threshold = <<0, 1>>
    /\ overrides_inner
    /\ ~column.nullable
    /\ mul = NoMultiply
    /\ rendered = <<>>
    /\ \E cfg \in [Threads -> ThreadConfigs] :
         par = [NoThreads EXCEPT
                  !.inst = [t \in Threads |-> Instance(cfg[t][1], cfg[t][2])]]

\* Thread t calls evaluate on its instance and runs it up to update_filter_info:
\* the early return, or the kernel and the sampler (lines 188-194).
ThreadEvaluate(t) ==
    LET me == par.inst[t]
    IN  /\ me.pc = "idle"
        /\ par.inst[1].calls + par.inst[2].calls < MaxCalls
        /\ \E n \in 0..ThreadRows : \E col \in Columns(FALSE, n) :
             \E k \in 0..n : \E buf \in (IF k = n THEN DenseBuffers(n) ELSE SparseSels(n, k)) :
               LET a == evaluate(me.rf, me.thr, TRUE, me.alone.sampler, me.alone.counters,
                                 ProfileThird, ProfileSecond, col, buf, k)
                   alone == [sampler |-> a.sampler, counters |-> a.counters,
                             ret |-> a.ret, sel |-> a.sel]
                   inner == _evaluate_inner(TRUE, col, buf, k)
               IN  par' = [par EXCEPT !.inst[t] =
                       IF always_true(me.sampler)
                       THEN [me EXCEPT !.calls = @ + 1, !.sel = buf, !.ret = k,
                                       !.alone = alone]
                       ELSE [me EXCEPT !.pc = "update_input", !.calls = @ + 1,
                                       !.sel = inner.sel,
                                       !.filter_rows = k - inner.new_size,
                                       !.input_rows = k,
                                       !.ret = inner.new_size,
                                       !.sampler =
                                           IF _can_ignore(me.rf)
                                           THEN do_judge_selectivity(me.sampler, me.thr,
                                                                     k - inner.new_size, k)
                                           ELSE me.sampler,
                                       !.alone = alone]]
    /\ UNCHANGED <<PredicateVars, mul, rendered>>

\* COUNTER_UPDATE(_predicate_input_rows_counter, input_rows), line 279.
ThreadUpdateInput(t) ==
    /\ par.inst[t].pc = "update_input"
    /\ par' = [par EXCEPT
                 !.counters = COUNTER_UPDATE(par.counters, ProfileThird,
                                             par.inst[t].input_rows),
                 !.inst[t].pc = "update_filtered",
                 !.overlapped = @ \/ \E o \in Threads \ {t} : par.inst[o].pc # "idle"]
    /\ UNCHANGED <<PredicateVars, mul, rendered>>

\* Seeded fault: the thread stores its own count, losing what the counter held.
ThreadUpdateFiltered_Overwrites(t) ==
    /\ par.inst[t].pc = "update_filtered"
    /\ par' = [par EXCEPT
                 !.counters = COUNTER_UPDATE_Sets(par.counters, ProfileSecond,
                                                  par.inst[t].filter_rows),
                 !.inst[t].pc = "idle",
                 !.inst[t].filter_rows = 0,
                 !.inst[t].input_rows = 0,
                 !.overlapped = @ \/ \E o \in Threads \ {t} : par.inst[o].pc # "idle"]
    /\ UNCHANGED <<PredicateVars, mul, rendered>>

\* COUNTER_UPDATE(_predicate_filtered_rows_counter, filter_rows), line 280, and
\* the return of evaluate.
ThreadUpdateFiltered(t) ==
    /\ par.inst[t].pc = "update_filtered"
    /\ par' = [par EXCEPT
                 !.counters = COUNTER_UPDATE(par.counters, ProfileSecond,
                                             par.inst[t].filter_rows),
                 !.inst[t].pc = "idle",
                 !.inst[t].filter_rows = 0,
                 !.inst[t].input_rows = 0,
                 !.overlapped = @ \/ \E o \in Threads \ {t} : par.inst[o].pc # "idle"]
    /\ UNCHANGED <<PredicateVars, mul, rendered>>

NextThreads ==
    \E t \in Threads :
        \/ ThreadEvaluate(t)
        \/ ThreadUpdateInput(t)
        \/ ThreadUpdateFiltered(t)

SpecThreads == InitThreads /\ [][NextThreads]_vars

\* ------------------------------------------------------------ claim helpers
\* The last operation was a short-circuit evaluate call.
Called == last.op = "evaluate"

\* The call returned a size (it did not throw).
Returned == Called /\ ~last.threw

\* The call found the predicate not always-true and ran the variant's kernel.
KernelRun == Called /\ last.kernel_ran

\* The call took the always-true early-out.
EarlyOut == Called /\ last.sampler_in.always_true

\* Rows named by the input selection of the last call: all rows of a dense
\* input, the first size_in buffer entries of a sparse one.
InputRows ==
    IF Len(column.cells) = last.size_in
    THEN 0..(last.size_in - 1)
    ELSE {last.sel_in[i] : i \in 1..last.size_in}

\* The selection the last call returned: the first ret entries of the buffer.
Result == SubSeq(sel, 1, last.ret)

\* The predicate's logical condition on a row: the cell equals the value; a
\* null cell never does.
Satisfies(row) == column.cells[row + 1] = PredValue

FilteredRows == last.size_in - last.ret

\* C1 (as claimed): after every short-circuit evaluate call that returns, in any
\* sampler state, every returned row satisfies the predicate and every input
\* row that is not returned violates it or is null.
C1_ResultIsExact ==
    Returned =>
        /\ \A r \in Range(Result) : Satisfies(r)
        /\ \A v \in InputRows \ Range(Result) : ~Satisfies(v)

\* C1 (amended): the same, for the calls that find the predicate not
\* always-true at their start (the calls that run the kernel).
C1_KernelResultIsExact ==
    (Returned /\ ~last.sampler_in.always_true) =>
        /\ \A r \in Range(Result) : Satisfies(r)
        /\ \A v \in InputRows \ Range(Result) : ~Satisfies(v)

\* C1 witness: an ignorable predicate, part-way through a window, ran the
\* kernel on a sparse selection and both kept and dropped a row.
C1_Witness ==
    /\ KernelRun
    /\ _runtime_filter_id # -1
    /\ last.sampler_in.judge_counter < SamplingFrequency
    /\ last.size_in < Len(column.cells)
    /\ last.ret >= 1
    /\ last.ret < last.size_in

\* C2 (as claimed): an always-true predicate is reset after at most
\* SamplingFrequency + 1 further evaluate calls: it never takes the
\* always-true early-out more than SamplingFrequency + 1 times in a row.
C2_AlwaysTrueEnds == hist.skipped <= SamplingFrequency + 1

\* C3: a predicate only ever given the runtime-filter id -1 is never
\* always-true, and its sampler state is the one set at construction.
C3_NotIgnorableNeverJudged ==
    hist.only_minus_one =>
        /\ ~_always_true
        /\ _judge_counter = SamplingFrequency
        /\ _judge_input_rows = 0
        /\ _judge_filter_rows = 0

\* C3 witness: such a predicate with a non-zero threshold has run the kernel
\* more than once and the last call filtered nothing out of a non-empty input.
C3_Witness ==
    /\ hist.only_minus_one
    /\ ignore_threshold[1] > 0
    /\ KernelRun
    /\ last.size_in > 0
    /\ last.ret = last.size_in
    /\ last.counters_in[_predicate_input_rows_counter] > 0

\* C4 (as claimed): after every evaluate call that returns, kernel path or
\* early-out, the count is at most size, the first count entries of the buffer
\* are strictly increasing row ids forming a subsequence of the input
\* selection, and no write went to an entry not yet read.
C4_OutputIsSparseSubsequence ==
    Returned =>
        /\ last.ret <= last.size_in
        /\ StrictlyIncreasing(Result)
        /\ Range(Result) \subseteq InputRows
        /\ ~last.early

\* C4 (amended): that holds of the calls that run the kernel; the always-true
\* early-out returns size and leaves the buffer as it was (a dense input stays
\* an implicit identity, its entries are not written).
C4_KernelOutputIsSparseSubsequence ==
    /\ KernelRun =>
        /\ last.ret <= last.size_in
        /\ StrictlyIncreasing(Result)
        /\ Range(Result) \subseteq InputRows
        /\ ~last.early
    /\ EarlyOut =>
        /\ last.ret = last.size_in
        /\ sel = last.sel_in

\* C4 witness: the kernel compacted a dense input whose buffer held no
\* identity, dropping the first row and keeping a later one.
C4_Witness ==
    /\ KernelRun
    /\ last.size_in = Len(column.cells)
    /\ last.size_in >= 2
    /\ ~StrictlyIncreasing(last.sel_in)
    /\ ~Satisfies(0)
    /\ last.ret >= 1

\* C5: with a non-zero threshold and a runtime-filter id other than -1, when
\* every call fed to the sampler in the current window reported a ratio below
\* the threshold, the predicate is always-true with the countdown still above
\* zero, and a call made in that state returned its input size and left the
\* selection as it was.
C5_UnselectiveWindowTurnsAlwaysTrue ==
    (/\ _can_ignore(_runtime_filter_id)
     /\ ignore_threshold[1] > 0
     /\ hist.window_fed
     /\ hist.window_below) =>
        /\ _always_true
        /\ _judge_counter > 0
        /\ EarlyOut => (last.ret = last.size_in /\ sel = last.sel_in)

\* C5 witness: a window other than the first turned always-true, and a later
\* call of that window was passed through.
C5_Witness ==
    /\ _can_ignore(_runtime_filter_id)
    /\ ignore_threshold[1] > 0
    /\ hist.window_fed
    /\ hist.window_below
    /\ _judge_counter = SamplingFrequency
    /\ EarlyOut
    /\ last.size_in > 0

\* C6: a call that starts always-true returns its input size without throwing,
\* leaves the buffer, the sampler state and every counter as they were, and
\* does not run the kernel.
C6_AlwaysTrueCallIsNoOp ==
    EarlyOut =>
        /\ ~last.threw
        /\ ~last.kernel_ran
        /\ last.ret = last.size_in
        /\ size = last.size_in
        /\ sel = last.sel_in
        /\ Sampler = last.sampler_in
        /\ counters = last.counters_in

\* C6 witness: an always-true call on a selection holding a row that violates
\* the predicate.
C6_Witness ==
    /\ EarlyOut
    /\ last.size_in > 0
    /\ \E v \in InputRows : ~Satisfies(v)

\* C7: a call that runs the kernel adds size to the input-rows counter and
\* size - new_size to the filtered-rows counter, ignorable or not; it feeds the
\* same pair to the sampler exactly when the predicate is ignorable.
C7_KernelCallIsCounted ==
    KernelRun =>
        /\ \A c \in CounterIds :
              counters[c] = last.counters_in[c]
                  + (IF c = _predicate_input_rows_counter THEN last.size_in ELSE 0)
                  + (IF c = _predicate_filtered_rows_counter THEN FilteredRows ELSE 0)
        /\ _can_ignore(_runtime_filter_id) =>
              IF last.sampler_in.judge_counter = 0
              THEN /\ _judge_counter = SamplingFrequency
                   /\ _judge_input_rows = last.size_in
                   /\ _judge_filter_rows = FilteredRows
              ELSE /\ _judge_counter = last.sampler_in.judge_counter - 1
                   /\ _judge_input_rows = last.sampler_in.judge_input_rows + last.size_in
                   /\ _judge_filter_rows = last.sampler_in.judge_filter_rows + FilteredRows
        /\ ~_can_ignore(_runtime_filter_id) => Sampler = last.sampler_in

\* C7 witness: a non-ignorable predicate ran the kernel and filtered some rows
\* but not all.
C7_Witness ==
    /\ KernelRun
    /\ ~_can_ignore(_runtime_filter_id)
    /\ FilteredRows > 0
    /\ last.ret > 0

\* The last attach_profile_counter call completed and got two counters.
AttachedBoth ==
    /\ hist.attached
    /\ ~aborted
    /\ hist.attach_args[2] # NullPtr
    /\ hist.attach_args[3] # NullPtr

\* C8 (as claimed): after attach_profile_counter(filter_id, second, third) with
\* both counters non-null the runtime-filter id is filter_id, and a kernel-run
\* call adds its input rows to the second argument and its filtered rows to
\* the third.
C8_SecondCountsInput ==
    AttachedBoth =>
        /\ _runtime_filter_id = hist.attach_args[1]
        /\ KernelRun =>
              /\ counters[hist.attach_args[2]]
                    = last.counters_in[hist.attach_args[2]] + last.size_in
              /\ counters[hist.attach_args[3]]
                    = last.counters_in[hist.attach_args[3]] + FilteredRows

\* C8 (amended): the second argument is the filtered-rows counter and the
\* third the input-rows counter: a kernel-run call adds its filtered rows to
\* the second argument and its input rows to the third.
C8_SecondCountsFiltered ==
    AttachedBoth =>
        /\ _runtime_filter_id = hist.attach_args[1]
        /\ _predicate_filtered_rows_counter = hist.attach_args[2]
        /\ _predicate_input_rows_counter = hist.attach_args[3]
        /\ KernelRun =>
              /\ counters[hist.attach_args[2]]
                    = last.counters_in[hist.attach_args[2]] + FilteredRows
              /\ counters[hist.attach_args[3]]
                    = last.counters_in[hist.attach_args[3]] + last.size_in

\* C8 witness: after such an attachment a kernel run kept some rows, so that
\* the two counts differ.
C8_Witness ==
    /\ AttachedBoth
    /\ KernelRun
    /\ last.ret > 0
    /\ FilteredRows > 0
    /\ last.counters_in[_predicate_input_rows_counter] > 0

\* The step reloads the countdown or lowers a cumulative total.
ReloadsOrDiscards ==
    \/ _judge_counter' > _judge_counter
    \/ _judge_input_rows' < _judge_input_rows
    \/ _judge_filter_rows' < _judge_filter_rows

\* The step leaves a fresh window: countdown reloaded, totals holding nothing
\* but the resetting call's own pair, always-true as judged from that pair alone.
LeavesFreshWindow ==
    /\ ~_always_true
    /\ _judge_counter' = SamplingFrequency
    /\ _judge_input_rows' = last'.size_in
    /\ _judge_filter_rows' = last'.size_in - last'.ret
    /\ _always_true' =>
          _judge_filter_rows' * ignore_threshold[2] < ignore_threshold[1] * _judge_input_rows'

\* C9: no step turns always-true from true to false without reloading the
\* countdown and discarding the totals, and no step reloads the countdown or
\* discards totals without the flag being cleared (what the flag is afterwards
\* was judged from the new window alone).
C9_ResetTogether ==
    [][/\ (_always_true /\ ~_always_true') => LeavesFreshWindow
       /\ ReloadsOrDiscards => LeavesFreshWindow]_vars

\* C9 witness: a call found the countdown at zero with totals accumulated, and
\* reset the sampler.
C9_Witness ==
    /\ KernelRun
    /\ _can_ignore(_runtime_filter_id)
    /\ last.sampler_in.judge_counter = 0
    /\ last.sampler_in.judge_input_rows > 0
    /\ last.sampler_in.judge_filter_rows > 0
    /\ _judge_counter = SamplingFrequency

\* C10: a call on a predicate that is not always-true and whose variant does
\* not override the kernel throws, and leaves the buffer, the selection size,
\* the sampler state and every counter as they were.
C10_MissingKernelThrows ==
    (Called /\ ~last.sampler_in.always_true /\ ~overrides_inner) =>
        /\ last.threw
        /\ ~last.kernel_ran
        /\ sel = last.sel_in
        /\ size = last.size_in
        /\ Sampler = last.sampler_in
        /\ counters = last.counters_in

\* C10 witness: an ignorable predicate without a kernel was called on a
\* non-empty selection and threw.
C10_Witness ==
    /\ Called
    /\ last.threw
    /\ _can_ignore(_runtime_filter_id)
    /\ last.size_in > 0

\* C11: a call made on the selection and size that the previous call on the
\* same column returned, in whatever sampler state either call found, returns
\* that size and leaves the buffer as it was: no further row is removed.
C11_EvaluateIsIdempotent ==
    (Returned /\ last.again) =>
        /\ last.ret = last.size_in
        /\ size = last.size_in
        /\ sel = last.sel_in

\* C11 witness: the kernel ran a second time, on a sparse non-empty selection
\* that the earlier call had compacted (the buffer is longer than the selection).
C11_Witness ==
    /\ KernelRun
    /\ last.again
    /\ last.size_in >= 1
    /\ last.size_in < Len(column.cells)
    /\ Len(last.sel_in) > last.size_in

\* The explicit selection vector that lists every row of an n-row batch.
ExplicitIdentity(n) == [i \in 1..n |-> i - 1]

\* Rows that survive when each entry of an explicit selection is read and tested.
SurvivorsOf(s) == {s[i] : i \in {j \in 1..Len(s) : Satisfies(s[j])}}

\* C12: a kernel run on a dense input (size = number of rows), whatever the
\* buffer held, keeps the rows that the kernel keeps when handed the explicit
\* vector 0..n-1, which are the rows that survive when that vector is read
\* entry by entry; a kernel run on a sparse input keeps the rows that survive
\* of its entries.
C12_DenseAndSparseAgree ==
    KernelRun =>
        IF Len(column.cells) = last.size_in
        THEN LET k == EVALUATE_BY_SELECTOR(column, ExplicitIdentity(last.size_in),
                                           last.size_in)
             IN  /\ Result = SubSeq(k.sel, 1, k.new_size)
                 /\ Range(Result) = SurvivorsOf(ExplicitIdentity(last.size_in))
        ELSE Range(Result) = SurvivorsOf(SubSeq(last.sel_in, 1, last.size_in))

\* C12 witness: a kernel run on a dense input whose buffer was not the
\* identity kept a row other than row 0 and dropped another.
C12_Witness ==
    /\ KernelRun
    /\ Len(column.cells) = last.size_in
    /\ last.sel_in # ExplicitIdentity(last.size_in)
    /\ last.ret >= 1
    /\ last.ret < last.size_in
    /\ \E r \in Range(Result) : r > 0

\* ------------------------------------------------------------ multiply claims
\* The product of the two raw operands, as a mathematical integer.
RawProduct == mul.a * mul.b

Sign(x) == IF x > 0 THEN 1 ELSE IF x < 0 THEN -1 ELSE 0

Abs(x) == IF x < 0 THEN -x ELSE x

\* The kernel has processed the pair.
Multiplied == mul.pc = "done"

\* The raw product does not fit the 128-bit integer.
RawOverflows == RawProduct > Int128Max \/ RawProduct < Int128Min

\* The product of the two decimals lies outside [min_decimal, max_decimal].
OutOfRange ==
    \/ RawProduct > get_max_decimal * ONE_BILLION
    \/ RawProduct < get_min_decimal * ONE_BILLION

\* The overflow error with both operands and the intermediate product.
OverflowSignalled ==
    /\ mul.threw
    /\ mul.error = <<mul.a, mul.b, Wrap(RawProduct)>>

\* The raw product divided by ONE_BILLION, rounded away from zero.
RoundedAway ==
    Sign(RawProduct) * ((Abs(RawProduct) + ONE_BILLION - 1) \div ONE_BILLION)

\* C13 as stated: in either path a pair whose product is out of range or whose
\* raw product overflows signals the overflow error, and every other pair
\* stores a result within [min_decimal, max_decimal].
C13_OverflowAlwaysSignalled ==
    Multiplied =>
        IF RawOverflows \/ OutOfRange
        THEN OverflowSignalled
        ELSE /\ ~mul.threw
             /\ mul.stored
             /\ mul.c \in get_min_decimal..get_max_decimal

\* C13 amended: that holds with check_overflow; without it no error is ever
\* signalled and a value is always stored, which is the rounded quotient
\* whenever the raw product is representable, within the decimal range or not.
C13_OverflowSignalledWhenChecking ==
    Multiplied =>
        IF mul.check_overflow
        THEN IF RawOverflows \/ OutOfRange
             THEN OverflowSignalled
             ELSE /\ ~mul.threw
                  /\ mul.stored
                  /\ mul.c \in get_min_decimal..get_max_decimal
        ELSE /\ ~mul.threw
             /\ mul.stored
             /\ ~RawOverflows => mul.c = RoundedAway

\* C13 witness: the checking path threw on a product that fits the integer
\* but whose quotient is larger than the largest decimal.
C13_Witness ==
    /\ Multiplied
    /\ mul.check_overflow
    /\ mul.threw
    /\ ~RawOverflows
    /\ OutOfRange

\* C19: when the raw product p is representable the stored value is
\* (p - sgn) / ONE_BILLION + sgn with truncating division and sgn the sign of p:
\* p / ONE_BILLION when that is exact, else the next value away from zero; it
\* has the sign of p and is zero only for a zero operand; and it is the value
\* the other path stores.
C19_RoundsAwayFromZero ==
    (Multiplied /\ ~RawOverflows) =>
        /\ mul.stored
        /\ mul.c = TruncDiv(RawProduct - Sign(RawProduct), ONE_BILLION) + Sign(RawProduct)
        /\ RawProduct % ONE_BILLION = 0 => mul.c * ONE_BILLION = RawProduct
        /\ RawProduct % ONE_BILLION # 0 =>
               /\ Abs(mul.c) * ONE_BILLION > Abs(RawProduct)
               /\ (Abs(mul.c) - 1) * ONE_BILLION < Abs(RawProduct)
        /\ Sign(mul.c) = Sign(RawProduct)
        /\ mul.c = 0 <=> (mul.a = 0 \/ mul.b = 0)
        /\ mul.c = vector_vector(~mul.check_overflow, mul.a, mul.b, 0).c

\* C19 witness: a negative product that is no multiple of ONE_BILLION was
\* stored by the non-checking path.
C19_Witness ==
    /\ Multiplied
    /\ ~mul.check_overflow
    /\ mul.stored
    /\ RawProduct < 0
    /\ ~RawOverflows
    /\ RawProduct % ONE_BILLION # 0

\* ------------------------------------------------------- attachment claims
\* The last operation was an attach_profile_counter call with a null counter.
AttachedWithNull ==
    /\ last.op = "attach"
    /\ (hist.attach_args[2] = NullPtr \/ hist.attach_args[3] = NullPtr)

\* C14: an attach_profile_counter call with a null input counter or a null
\* filtered counter is aborted: it never returns having changed the
\* runtime-filter id or one counter reference.
C14_NullCounterAttachAborts == AttachedWithNull => aborted

\* ---------------------------------------------------------- rendering claims
\* The kinds the function of a rendering has a dedicated name for.
Dedicated(r) ==
    IF r.fn = "type_to_string" THEN TypeToStringCases ELSE PredTypeStringCases

\* C15: every rendering of one of the 14 kinds, by either function, is
\* non-empty and the same each time; a kind without a dedicated name renders as
\* "unknown"; two different kinds with dedicated names render differently.
C15_EveryKindRendersNonEmpty ==
    \A i \in 1..Len(rendered) :
        /\ rendered[i].str # ""
        /\ rendered[i].type \notin Dedicated(rendered[i]) => rendered[i].str = "unknown"
        /\ \A j \in 1..Len(rendered) :
              rendered[j].fn = rendered[i].fn =>
                 /\ rendered[j].type = rendered[i].type => rendered[j].str = rendered[i].str
                 /\ (/\ rendered[j].type # rendered[i].type
                     /\ rendered[i].type \in Dedicated(rendered[i])
                     /\ rendered[j].type \in Dedicated(rendered[j]))
                        => rendered[j].str # rendered[i].str

\* ------------------------------------------------------------ sampler claims
\* The last call ran the sampler: the kernel ran on an ignorable predicate.
SamplerCall == KernelRun /\ _can_ignore(_runtime_filter_id)

\* C17 as stated: a sampler call lowers the countdown by one, and the call
\* that brings it to zero resets: it returns with the countdown reloaded, both
\* totals zero and always-true false; the totals of a window that has run out
\* cover exactly SamplingFrequency calls.
C17_CallReachingZeroResets ==
    /\ SamplerCall =>
          IF last.sampler_in.judge_counter - 1 = 0
          THEN /\ _judge_counter = SamplingFrequency
               /\ _judge_input_rows = 0
               /\ _judge_filter_rows = 0
               /\ ~_always_true
          ELSE _judge_counter = last.sampler_in.judge_counter - 1
    /\ _judge_counter = 0 => hist.window_calls = SamplingFrequency

\* C17 amended: a sampler call that finds the countdown above zero lowers it by
\* one and adds its rows to the totals; the call that finds it at zero resets:
\* it returns with the countdown reloaded and not lowered, the totals holding
\* its own rows alone and always-true as judged from them.  The window that
\* starts at construction covers SamplingFrequency calls, every later one
\* SamplingFrequency + 1.
C17_CallFindingZeroResets ==
    /\ SamplerCall =>
          IF last.sampler_in.judge_counter = 0
          THEN /\ _judge_counter = SamplingFrequency
               /\ _judge_input_rows = last.size_in
               /\ _judge_filter_rows = FilteredRows
               /\ _always_true = judge_selectivity(ignore_threshold, FilteredRows,
                                                   last.size_in)
          ELSE /\ _judge_counter = last.sampler_in.judge_counter - 1
               /\ _judge_input_rows = last.sampler_in.judge_input_rows + last.size_in
               /\ _judge_filter_rows = last.sampler_in.judge_filter_rows + FilteredRows
    /\ hist.window_calls + _judge_counter =
          IF hist.resets THEN SamplingFrequency + 1 ELSE SamplingFrequency

\* C17 witness: a sampler call found the countdown at zero and had rows of its
\* own, some of them filtered, to start the new window with.
C17_Witness ==
    /\ SamplerCall
    /\ last.sampler_in.judge_counter = 0
    /\ last.size_in > 0
    /\ FilteredRows > 0

\* C18: the sampler's filtered total never exceeds its input total, the
\* filtered-rows counter never exceeds the input-rows counter, and neither
\* total exceeds what its counter has received since the window began.
C18_FilteredWithinInput ==
    /\ _judge_filter_rows <= _judge_input_rows
    /\ counters[_predicate_filtered_rows_counter] <= counters[_predicate_input_rows_counter]
    /\ _judge_input_rows
          <= counters[_predicate_input_rows_counter] - hist.window_base.input
    /\ _judge_filter_rows
          <= counters[_predicate_filtered_rows_counter] - hist.window_base.filtered

\* C18 witness: a sampler call in a window that began after earlier calls had
\* been counted has filtered some rows and kept some.
C18_Witness ==
    /\ SamplerCall
    /\ hist.resets
    /\ hist.window_base.input > 0
    /\ _judge_filter_rows > 0
    /\ _judge_filter_rows < _judge_input_rows

\* ------------------------------------------------------------ threads claims
\* What the calls of thread t so far have added to counter c when run alone,
\* less what the call under way has not added yet.
Delivered(t, c) ==
    par.inst[t].alone.counters[c]
        - (IF c = ProfileThird /\ par.inst[t].pc = "update_input"
           THEN par.inst[t].input_rows ELSE 0)
        - (IF c = ProfileSecond /\ par.inst[t].pc \in {"update_input", "update_filtered"}
           THEN par.inst[t].filter_rows ELSE 0)

\* C16: in every interleaving of the two threads each instance returns the
\* size and selection, and has the sampler state, of its calls run alone, and
\* each shared counter holds the sum of the updates both instances have made.
C16_InstancesShareOnlyCounters ==
    /\ \A t \in Threads :
          /\ par.inst[t].sampler = par.inst[t].alone.sampler
          /\ par.inst[t].ret = par.inst[t].alone.ret
          /\ par.inst[t].sel = par.inst[t].alone.sel
    /\ \A c \in CounterIds : par.counters[c] = Delivered(1, c) + Delivered(2, c)

\* C16 witness: both threads have finished their calls, a counter update of one
\* fell between the start and the end of a call of the other, both instances
\* counted rows and one of them is always-true.
C16_Witness ==
    /\ par.overlapped
    /\ \A t \in Threads : par.inst[t].pc = "idle" /\ par.inst[t].calls >= 1
    /\ par.inst[1].calls + par.inst[2].calls = MaxCalls
    /\ \A t \in Threads : par.inst[t].alone.counters[ProfileThird] > 0
    /\ par.counters[ProfileSecond] > 0
    /\ \E t \in Threads : par.inst[t].sampler.always_true

====
